---------------------------- MODULE Spec2Model ----------------------------
(***************************************************************************)
(* Model of the metadata pipeline of bootstrap-data:                       *)
(*   fetch_data_for_youtube_urls.py  (URL -> identifier -> fetch ->        *)
(*                                    classify -> clean tags -> record)    *)
(*   ingest_json_to_table.py         (record -> INSERT statement)          *)
(*   fiddle_with_tagged_music.py     (add_url: fetch, ingest, execute)     *)
(*   build_music_corpus_prototype.py (insert_sample_data)                  *)
(*                                                                         *)
(* A Python str is a sequence of one-character strings, so that split,     *)
(* replace, strip, startswith, "in" and lower act on characters as they do *)
(* in the code.  Python None is the one-element sequence None below.       *)
(***************************************************************************)
EXTENDS Integers, Sequences, FiniteSets, TLC

(***************************************************************************)
(* Python str operations                                                   *)
(***************************************************************************)

\* Python None (never equal to a str, which holds one-character entries).
None == <<"<None>">>

\* Python truthiness of an Optional[str]: None and "" are falsy.
Truthy(s) == s # None /\ s # <<>>

\* x or y
PyOr(x, y) == IF Truthy(x) THEN x ELSE y

\* s[:n], n >= 0
Take(s, n) == SubSeq(s, 1, IF n < Len(s) THEN n ELSE Len(s))

\* s[n:], n >= 0
Drop(s, n) == IF n < Len(s) THEN SubSeq(s, n + 1, Len(s)) ELSE <<>>

\* s[i-1:].startswith(p), i counted from 1
MatchAt(s, p, i) == i + Len(p) - 1 <= Len(s) /\ SubSeq(s, i, i + Len(p) - 1) = p

\* the least element of a set of numbers, none when the set is empty
MinOr(S, none) == IF S = {} THEN none ELSE CHOOSE i \in S : \A j \in S : i <= j

\* s.find(p) + 1: the first position of p in s, 0 when p does not occur
Find(s, p) == MinOr({i \in 1..(Len(s) + 1) : MatchAt(s, p, i)}, 0)

\* p in s
Contains(s, p) == Find(s, p) # 0

\* s.startswith(p)
StartsWith(s, p) == MatchAt(s, p, 1)

\* s.replace(old, new): every non-overlapping occurrence, left to right
RECURSIVE Replace(_, _, _)
ReplaceAt(s, old, new, i) ==
    IF i = 0 THEN s
    ELSE Take(s, i - 1) \o new \o Replace(Drop(s, i + Len(old) - 1), old, new)

Replace(s, old, new) == ReplaceAt(s, old, new, Find(s, old))

\* s.split(sep): all the parts
RECURSIVE Split(_, _)
SplitAt(s, sep, i) ==
    IF i = 0 THEN <<s>>
    ELSE <<Take(s, i - 1)>> \o Split(Drop(s, i + Len(sep) - 1), sep)

Split(s, sep) == SplitAt(s, sep, Find(s, sep))

\* s.split(sep, 1): at most one split, at the first occurrence
Split1At(s, sep, i) ==
    IF i = 0 THEN <<s>> ELSE <<Take(s, i - 1), Drop(s, i + Len(sep) - 1)>>

Split1(s, sep) == Split1At(s, sep, Find(s, sep))

\* seq[-1]
Last(seq) == seq[Len(seq)]

\* the characters str.strip() removes
Whitespace == {" ", "\t", "\n"}

RECURSIVE LStripChars(_, _)
LStripChars(s, cs) ==
    IF s # <<>> /\ s[1] \in cs THEN LStripChars(Drop(s, 1), cs) ELSE s

RECURSIVE RStripChars(_, _)
RStripChars(s, cs) ==
    IF s # <<>> /\ s[Len(s)] \in cs THEN RStripChars(Take(s, Len(s) - 1), cs) ELSE s

\* s.strip(chars)
StripChars(s, cs) == RStripChars(LStripChars(s, cs), cs)

\* s.strip()
Strip(s) == StripChars(s, Whitespace)

UpperLetters ==
    <<"A", "B", "C", "D", "E", "F", "G", "H", "I", "J", "K", "L", "M",
      "N", "O", "P", "Q", "R", "S", "T", "U", "V", "W", "X", "Y", "Z">>

LowerLetters ==
    <<"a", "b", "c", "d", "e", "f", "g", "h", "i", "j", "k", "l", "m",
      "n", "o", "p", "q", "r", "s", "t", "u", "v", "w", "x", "y", "z">>

IsUpper(c) == \E k \in 1..26 : UpperLetters[k] = c

IsLower(c) == \E k \in 1..26 : LowerLetters[k] = c

IsLetter(c) == IsUpper(c) \/ IsLower(c)

LowerChar(c) ==
    IF IsUpper(c) THEN LowerLetters[CHOOSE k \in 1..26 : UpperLetters[k] = c] ELSE c

UpperChar(c) ==
    IF IsLower(c) THEN UpperLetters[CHOOSE k \in 1..26 : LowerLetters[k] = c] ELSE c

\* s.lower()
Lower(s) == [i \in 1..Len(s) |-> LowerChar(s[i])]

\* s.title(): a letter after a non-letter is upper-cased, any other is lower-cased
TitleCase(s) ==
    [i \in 1..Len(s) |->
        IF i = 1 \/ ~IsLetter(s[i - 1]) THEN UpperChar(s[i]) ELSE LowerChar(s[i])]


(***************************************************************************)
(* fetch_data_for_youtube_urls.py: the pure helpers                        *)
(***************************************************************************)

TopicSuffix == <<" ", "-", " ", "T", "o", "p", "i", "c">>

\* clean_artist_name: None and "" are returned as they are
clean_artist_name(name) ==
    IF ~Truthy(name) THEN name ELSE Strip(Replace(name, TopicSuffix, <<>>))

\* description[:80]
DescriptionCap == 80

cap_description(description) ==
    IF ~Truthy(description) THEN description ELSE Take(description, DescriptionCap)

\* urllib.parse.urlsplit's scheme characters
IsSchemeChar(c) ==
    \/ IsLetter(c)
    \/ c \in {"0", "1", "2", "3", "4", "5", "6", "7", "8", "9", "+", "-", "."}

\* the position of the ":" that ends a scheme, 0 when the URL has no scheme
SchemeEndAt(url, i) ==
    IF i > 1 /\ IsLetter(url[1]) /\ \A k \in 1..(i - 1) : IsSchemeChar(url[k])
        THEN i ELSE 0

SchemeEnd(url) == SchemeEndAt(url, Find(url, <<":">>))

\* the first position in s of a character of cs, Len(s) + 1 when there is none
FirstOf(s, cs) == MinOr({i \in 1..Len(s) : s[i] \in cs}, Len(s) + 1)

\* urlparse(url), as far as extract_video_id reads it: netloc, path and query
\* (the inputs carry no ";" parameters).  The steps are urlsplit's: the scheme
\* is cut off, then a netloc after "//", then the fragment, then the query.
SplitQuery(netloc, noFrag, q) ==
    [netloc |-> netloc, path |-> Take(noFrag, q - 1), query |-> Drop(noFrag, q)]

CutQuery(netloc, noFrag) == SplitQuery(netloc, noFrag, FirstOf(noFrag, {"?"}))

CutFragment(netloc, tail) == CutQuery(netloc, Take(tail, FirstOf(tail, {"#"}) - 1))

SplitNetloc(afterSlashes, netEnd) ==
    CutFragment(Take(afterSlashes, netEnd - 1), Drop(afterSlashes, netEnd - 1))

CutNetloc(rest) ==
    IF StartsWith(rest, <<"/", "/">>)
        THEN SplitNetloc(Drop(rest, 2), FirstOf(Drop(rest, 2), {"/", "?", "#"}))
        ELSE CutFragment(<<>>, rest)

urlparse(url) == CutNetloc(Drop(url, SchemeEnd(url)))

\* unquote of a query name or value: "+" is a space (the inputs carry no
\* percent escapes)
QsDecode(s) == Replace(s, <<"+">>, <<" ">>)

\* one name=value field of a query names key and has a value
FieldNames(nv, key) == Len(nv) = 2 /\ nv[2] # <<>> /\ QsDecode(nv[1]) = key

\* the value of the first field of pairs that names key, None without one
FirstValue(pairs, k) ==
    IF k = 0 THEN None ELSE QsDecode(Split1(pairs[k], <<"=">>)[2])

FirstNamed(pairs, key) ==
    FirstValue(pairs,
               MinOr({k \in 1..Len(pairs) : FieldNames(Split1(pairs[k], <<"=">>), key)}, 0))

\* parse_qs(query).get(key, [None])[0]: the first non-blank value of key
QueryParam(query, key) == FirstNamed(Split(query, <<"&">>), key)

YoutuBe == <<"y", "o", "u", "t", "u", ".", "b", "e">>

YoutubeCom == <<"y", "o", "u", "t", "u", "b", "e", ".", "c", "o", "m">>

MusicYoutubeCom ==
    <<"m", "u", "s", "i", "c", ".", "y", "o", "u", "t", "u", "b", "e", ".", "c", "o", "m">>

Watch == <<"w", "a", "t", "c", "h">>

PlaylistWord == <<"p", "l", "a", "y", "l", "i", "s", "t">>

ChannelWord == <<"c", "h", "a", "n", "n", "e", "l">>

\* the canonical-domain branch of extract_video_id
ExtractParsed(parsed_url) ==
    IF \/ Contains(parsed_url.netloc, YoutubeCom)
       \/ Contains(parsed_url.netloc, MusicYoutubeCom)
    THEN IF Contains(parsed_url.path, Watch)
            THEN QueryParam(parsed_url.query, <<"v">>)
         ELSE IF Contains(parsed_url.path, PlaylistWord)
            THEN QueryParam(parsed_url.query, <<"l", "i", "s", "t">>)
         ELSE IF Contains(parsed_url.path, ChannelWord)
            THEN Last(Split(parsed_url.path, <<"/">>))
         ELSE None
    ELSE None

ExtractCanonical(url) == ExtractParsed(urlparse(url))

\* the youtu.be branch of extract_video_id
ExtractShortLink(url) == Split(Last(Split(url, <<"/">>)), <<"?">>)[1]

extract_video_id(url) ==
    IF Contains(url, YoutuBe) THEN ExtractShortLink(url) ELSE ExtractCanonical(url)

\* process_urls' choice of the fetch strategy, made on the whole URL
StrategyOf(url) ==
    IF Contains(url, PlaylistWord) THEN "playlist"
    ELSE IF Contains(url, ChannelWord) THEN "channel"
    ELSE "video"

(***************************************************************************)
(* Classifier, name resolver and tag normalizer                            *)
(***************************************************************************)

\* A sampled member track, as get_playlist_tracks_metadata builds it:
\* [title, artist_name, youtube_id, description, tags].

\* the range of a sequence
Range(seq) == {seq[i] : i \in 1..Len(seq)}

\* {track['artist_name'] for track in tracks_metadata if track['artist_name']}
TrackArtists(tracks_metadata) ==
    {tracks_metadata[i].artist_name : i \in
        {k \in 1..Len(tracks_metadata) : Truthy(tracks_metadata[k].artist_name)}}

AlbumPrefix == <<"A", "l", "b", "u", "m", " ", "-", " ">>

\* title[8:]
AlbumPrefixLen == 8

DashSep == <<" ", "-", " ">>

ColonSep == <<":", " ">>

Apostrophe == <<"'">>

\* a variant of ParseTitle that tries the colon pattern before the dash
\* pattern
ParseTitleColonFirst(title) ==
    IF StartsWith(title, AlbumPrefix)
        THEN <<"Album", Drop(title, AlbumPrefixLen), None>>
    ELSE IF Contains(title, ColonSep)
        THEN <<"Album", Strip(Split1(title, ColonSep)[2]), Strip(Split1(title, ColonSep)[1])>>
    ELSE IF Contains(title, DashSep)
        THEN <<"Album", Strip(Split1(title, DashSep)[2]), Strip(Split1(title, DashSep)[1])>>
    ELSE IF Contains(title, Apostrophe)
        THEN <<"Album", StripChars(Split1(title, Apostrophe)[2], {"'", " "}),
               Strip(Split1(title, Apostrophe)[1])>>
    ELSE <<"Playlist", title, None>>

\* parse_album_info's patterns on the title: <<type, name, artist_name>>
ParseTitle(title) ==
    IF StartsWith(title, AlbumPrefix)
        THEN <<"Album", Drop(title, AlbumPrefixLen), None>>
    ELSE IF Contains(title, DashSep)
        THEN LET parts == Split1(title, DashSep)
             IN  <<"Album", Strip(parts[2]), Strip(parts[1])>>
    ELSE IF Contains(title, ColonSep)
        THEN LET parts == Split1(title, ColonSep)
             IN  <<"Album", Strip(parts[2]), Strip(parts[1])>>
    ELSE IF Contains(title, Apostrophe)
        THEN LET parts == Split1(title, Apostrophe)
             IN  <<"Album", StripChars(parts[2], {"'", " "}), Strip(parts[1])>>
    ELSE <<"Playlist", title, None>>

\* a variant of MultiArtist that asks for more than two artists
MultiArtistOverTwo(tracks_metadata) ==
    tracks_metadata # <<>> /\ Cardinality(TrackArtists(tracks_metadata)) > 2

\* the multi-artist test parse_album_info makes first
MultiArtist(tracks_metadata) ==
    tracks_metadata # <<>> /\ Cardinality(TrackArtists(tracks_metadata)) > 1

\* parse_album_info(title, tracks_metadata): <<type, name, artist_name>>
parse_album_info(title, tracks_metadata) ==
    IF MultiArtist(tracks_metadata)
        THEN <<"Playlist", title, None>>
        ELSE ParseTitle(title)

MusicWord == <<"m", "u", "s", "i", "c">>

\* the test of one loop round of clean_tags: TRUE when the tag is added
KeepTag(tag, title, artist_name, tracks, is_playlist) ==
    /\ Truthy(tag) /\ Strip(tag) # <<>>
    /\ Lower(tag) # MusicWord
    /\ ~(Truthy(title) /\ Lower(tag) = Lower(title))
    /\ ~(is_playlist /\ Truthy(artist_name) /\ Lower(tag) = Lower(artist_name))
    /\ ~(\E k \in 1..Len(tracks) : Lower(tag) = Lower(tracks[k].title))

\* cleaned_tags, the set clean_tags builds from the list tags
CleanedTagSet(tags, title, artist_name, tracks, is_playlist) ==
    {tags[i] : i \in
        {k \in 1..Len(tags) : KeepTag(tags[k], title, artist_name, tracks, is_playlist)}}

\* list(a_set): the order of a Python set of str is not fixed (hash seed), so
\* every order is possible
ListsOf(S) ==
    {seq \in [1..Cardinality(S) -> S] : Range(seq) = S}

\* the tags clean_tags would keep with a set that ignores case: of the kept
\* tags equal but for case, the first
FirstCasings(tags, title, artist_name, tracks, is_playlist) ==
    {tags[i] : i \in
        {k \in 1..Len(tags) :
            /\ KeepTag(tags[k], title, artist_name, tracks, is_playlist)
            /\ \A j \in 1..(k - 1) : Lower(tags[j]) # Lower(tags[k])}}

\* a variant of clean_tags that removes the tags equal but for case
clean_tags_caseless(tags, title, artist_name, tracks, is_playlist) ==
    ListsOf(FirstCasings(tags, title, artist_name, tracks, is_playlist))

\* clean_tags(...): the lists it can return
clean_tags(tags, title, artist_name, tracks, is_playlist) ==
    ListsOf(CleanedTagSet(tags, title, artist_name, tracks, is_playlist))

\* one order of a set, for a list built from a set and only iterated over
\* where the order cannot change the result
RECURSIVE AnyList(_)
AnyList(S) ==
    IF S = {} THEN <<>>
    ELSE LET x == CHOOSE y \in S : TRUE IN <<x>> \o AnyList(S \ {x})

\* url.split('/')[-1].replace('_', ' ').title()
TopicTag(url) == TitleCase(Replace(Last(Split(url, <<"/">>)), <<"_">>, <<" ">>))

\* set(snippet.get('tags', [])) updated with the topic categories of the item
\* (an item without topicDetails has topicCategories = <<>>)
ItemTags(item) ==
    Range(item.snippet.tags) \cup {TopicTag(u) : u \in Range(item.topicCategories)}

(***************************************************************************)
(* Metadata fetcher.  A catalog answer is [status, items, reason]: status   *)
(* "ok" with the items of response['items'], or "HttpError" when            *)
(* request.execute() raises googleapiclient.errors.HttpError(reason).       *)
(* Each get_*_metadata below is the set of dicts the call can return: the   *)
(* order of the tags list is the only choice.                               *)
(***************************************************************************)

Ok(items) == [status |-> "ok", items |-> items, reason |-> <<>>]

HttpError(reason) == [status |-> "HttpError", items |-> <<>>, reason |-> reason]

\* a request the code did not issue
NotIssued == [status |-> "not issued", items |-> <<>>, reason |-> <<>>]

\* a variant of ApiError that drops the description of the failure
ApiErrorBare(resp) == [error |-> <<"API Error: ", <<>> >>]

\* {"error": f"API Error: {str(e)}"}
ApiError(resp) == [error |-> <<"API Error: ", resp.reason>>]

IsError(metadata) == "error" \in DOMAIN metadata

\* the dicts get_video_metadata builds for the first item of the answer
VideoRecords(video_id, video) ==
    {[type        |-> "Video",
      name        |-> video.snippet.title,
      artist_name |-> clean_artist_name(video.snippet.channelTitle),
      youtube_id  |-> video_id,
      description |-> cap_description(video.snippet.description),
      tags        |-> cleaned_tags] :
        cleaned_tags \in clean_tags(AnyList(ItemTags(video)), video.snippet.title,
                                    clean_artist_name(video.snippet.channelTitle),
                                    <<>>, FALSE)}

get_video_metadata(video_id, detail) ==
    IF detail.status = "HttpError" THEN {ApiError(detail)}
    ELSE IF detail.items = <<>> THEN {[error |-> <<"Video not found">>]}
    ELSE VideoRecords(video_id, detail.items[1])

\* one entry of tracks_metadata
TrackOf(video) ==
    [title       |-> video.snippet.title,
     artist_name |-> clean_artist_name(video.snippet.channelTitle),
     youtube_id  |-> video.id,
     description |-> video.snippet.description,
     tags        |-> AnyList(ItemTags(video))]

\* max_tracks: int = 3
max_tracks == 3

\* get_playlist_tracks_metadata: members is the answer to playlistItems().list
\* (its items are the video ids), memberDetail the answer to the batched
\* videos().list; an HttpError of either is printed and [] returned
get_playlist_tracks_metadata(members, memberDetail) ==
    IF members.status = "HttpError" THEN <<>>
    ELSE IF members.items = <<>> THEN <<>>
    ELSE IF memberDetail.status = "HttpError" THEN <<>>
    ELSE [i \in 1..Len(memberDetail.items) |-> TrackOf(memberDetail.items[i])]

\* [track['artist_name'] for track in tracks_metadata if track['artist_name']]
ArtistsOf(kept) == [i \in 1..Len(kept) |-> kept[i].artist_name]

HasArtist(track) == Truthy(track.artist_name)

TrackArtistList(tracks_metadata) == ArtistsOf(SelectSeq(tracks_metadata, HasArtist))

\* track_artists and all(artist == track_artists[0] for artist in track_artists)
AllSame(track_artists) ==
    /\ track_artists # <<>>
    /\ \A i \in 1..Len(track_artists) : track_artists[i] = track_artists[1]

\* a variant of ResolveArtist that never looks at the tracks
ResolveArtistFromTitle(content_type, artist_name, tracks_metadata) == artist_name

\* the artist_name of get_playlist_metadata after its look at the tracks
ResolveArtist(content_type, artist_name, tracks_metadata) ==
    IF /\ ~Truthy(artist_name)
       /\ tracks_metadata # <<>>
       /\ content_type = "Album"
       /\ AllSame(TrackArtistList(tracks_metadata))
    THEN TrackArtistList(tracks_metadata)[1]
    ELSE artist_name

\* the artist_name entry of the playlist record
PlaylistArtist(artist_name, snippet) ==
    clean_artist_name(PyOr(artist_name, snippet.channelTitle))

\* all_tags: the tags of all the sampled tracks
AllTags(tracks_metadata) ==
    UNION {Range(tracks_metadata[i].tags) : i \in 1..Len(tracks_metadata)}

\* the dicts get_playlist_metadata returns once type, name and artist_name
\* are decided
PlaylistRecords(playlist_id, snippet, tracks_metadata, content_type, name, artist_name) ==
    {[type        |-> content_type,
      name        |-> name,
      artist_name |-> PlaylistArtist(artist_name, snippet),
      youtube_id  |-> playlist_id,
      description |-> cap_description(snippet.description),
      tags        |-> cleaned_tags] :
        cleaned_tags \in clean_tags(AnyList(AllTags(tracks_metadata)), name, artist_name,
                                    tracks_metadata, TRUE)}

\* from the result of parse_album_info on
PlaylistParsed(playlist_id, snippet, tracks_metadata, parsed) ==
    PlaylistRecords(playlist_id, snippet, tracks_metadata, parsed[1], parsed[2],
                    ResolveArtist(parsed[1], parsed[3], tracks_metadata))

\* from the sampled tracks on
PlaylistSampled(playlist_id, snippet, tracks_metadata) ==
    PlaylistParsed(playlist_id, snippet, tracks_metadata,
                   parse_album_info(snippet.title, tracks_metadata))

get_playlist_metadata(playlist_id, detail, members, memberDetail) ==
    IF detail.status = "HttpError" THEN {ApiError(detail)}
    ELSE IF detail.items = <<>> THEN {[error |-> <<"Playlist not found">>]}
    ELSE PlaylistSampled(playlist_id, detail.items[1].snippet,
                         get_playlist_tracks_metadata(members, memberDetail))

\* the title get_artist_metadata hands to clean_tags
ArtistTagTitle(snippet) == snippet.title

\* the dicts get_artist_metadata builds for the first item of the answer
ArtistRecords(channel_id, channel) ==
    {[type        |-> "Artist",
      name        |-> clean_artist_name(channel.snippet.title),
      youtube_id  |-> channel_id,
      description |-> cap_description(channel.snippet.description),
      tags        |-> cleaned_tags] :
        cleaned_tags \in clean_tags(AnyList(ItemTags(channel)),
                                    ArtistTagTitle(channel.snippet), None, <<>>, FALSE)}

get_artist_metadata(channel_id, detail) ==
    IF detail.status = "HttpError" THEN {ApiError(detail)}
    ELSE IF detail.items = <<>> THEN {[error |-> <<"Artist channel not found">>]}
    ELSE ArtistRecords(channel_id, detail.items[1])

(***************************************************************************)
(* The catalog: the answers the YouTube Data API can give in a run          *)
(***************************************************************************)

Https == <<"h", "t", "t", "p", "s", ":", "/", "/">>

\* a description longer than the cap
LongText == [i \in 1..(DescriptionCap + 1) |-> "x"]

WikiRockMusic == <<"w", "/", "R", "o", "c", "k", "_", "m", "u", "s", "i", "c">>

WikiMusic == <<"w", "/", "M", "u", "s", "i", "c">>

Snippet(title, channelTitle, description, tags) ==
    [title |-> title, channelTitle |-> channelTitle,
     description |-> description, tags |-> tags]

Item(id, snippet, topicCategories) ==
    [id |-> id, snippet |-> snippet, topicCategories |-> topicCategories]

\* the videos that are members of playlists, by video id
TrackA ==
    Item(<<"a">>, Snippet(<<"G">>, <<"Q">>, None, << <<"R", "o", "c", "k">> >>),
         <<WikiMusic>>)

TrackB ==
    Item(<<"b">>, Snippet(<<"H">>, <<"Q">> \o TopicSuffix, <<"d">>, << <<"Q">> >>), <<>>)

TrackC ==
    Item(<<"c">>, Snippet(<<"G">>, <<"R">>, None, << <<"g">>, <<"r", "o", "c", "k">> >>),
         <<>>)

TrackD ==
    Item(<<"d">>, Snippet(<<"H">>, None, None, << <<" ">> >>), <<>>)

\* a channel title that still ends in the suffix after one removal
TopicTwice == <<"Q", " ", "-", " ", "T", "o">> \o TopicSuffix \o <<"p", "i", "c">>

TrackE ==
    Item(<<"e">>, Snippet(<<"H">>, TopicTwice, None, <<>>), <<>>)

VideoLib == {TrackA, TrackB, TrackC, TrackD, TrackE}

VideoIds == {v.id : v \in VideoLib}

VideoById(id) == CHOOSE v \in VideoLib : v.id = id

Failures == {HttpError(<<"quotaExceeded">>)}

\* the answers to the batched videos().list for the sampled members
MemberDetailAnswers(ids) ==
    Failures \cup {Ok([i \in 1..Len(ids) |-> VideoById(ids[i])])}

\* the strings of at most n pieces, n >= 1
RECURSIVE Concats(_, _)
Longer(shorter, pieces) == shorter \cup {s \o p : s \in shorter, p \in pieces}

Concats(pieces, n) == IF n = 1 THEN pieces ELSE Longer(Concats(pieces, n - 1), pieces)

\* the largest number of pieces of a playlist title
MaxParts == 3

TitlePieces ==
    {<<"Q">>, <<"G">>, DashSep, ColonSep, Apostrophe, <<"A", "l", "b", "u", "m">>}

PlaylistTitles == Concats(TitlePieces, MaxParts)

\* titles of each pattern of parse_album_info, for the playlists whose
\* members vary
KeyTitles ==
    {<<"G">>, <<"Q">> \o DashSep \o <<"G">>, AlbumPrefix \o <<"G">>, AlbumPrefix,
     DashSep \o <<"G">>}

\* member lists for the playlists whose titles vary: no member, one artist
\* (once with the Topic suffix), two artists, a member without artist, and a
\* playlist longer than the sample
KeyMembers ==
    {<<>>, << <<"a">>, <<"b">> >>, << <<"a">>, <<"c">> >>, << <<"d">> >>, << <<"e">> >>,
     << <<"a">>, <<"b">>, <<"d">> >>, << <<"a">>, <<"b">>, <<"a">>, <<"c">> >>}

ChannelTitles ==
    {<<"Q">>, <<"Q">> \o TopicSuffix, TopicSuffix, <<" ", "Q", " ">>, TopicTwice}

\* a playlist of the catalog: its snippet and, known to the catalog alone,
\* the ids of its members
PlaylistItem(title, channelTitle, description, memberIds) ==
    [snippet |-> [title |-> title, channelTitle |-> channelTitle,
                  description |-> description],
     memberIds |-> memberIds]

SeqsUpTo(S, n) == UNION {[1..k -> S] : k \in 0..n}

\* Catalog "small": a few items of each kind, for runs over several URLs.
\* Catalog "rich": one-URL runs over many titles, members and tags.
CatalogOf(name) ==
    IF name = "small" THEN
        [videos    |-> {Item(<<"a">>, Snippet(<<"G", "'", "s">>, <<"Q">> \o TopicSuffix, LongText,
                                              << <<"R", "o", "c", "k">>, <<"G">> >>),
                             <<WikiMusic>>)},
         playlists |-> {PlaylistItem(<<"Q">> \o DashSep \o <<"G">>, <<"Q">>, LongText, ids) :
                            ids \in SeqsUpTo({<<"a">>, <<"c">>}, 1)},
         channels  |-> {Item(<<"U">>, Snippet(<<"Q">> \o TopicSuffix, None, <<"d">>,
                                              << <<"Q">>, <<"p", "o", "p">> >>),
                             <<>>)}]
    ELSE
        [videos    |-> {Item(<<"a">>, Snippet(title, channelTitle, None, tags), topics) :
                            title \in Concats({<<"Q">>, <<"G">>, DashSep}, 2),
                            channelTitle \in ChannelTitles \cup {None},
                            tags \in {<<>>, << <<"Q">>, <<"g">> >>, << <<"R", "o", "c", "k">>, <<" ">> >>},
                            topics \in {<<>>, <<WikiMusic, WikiRockMusic>>}},
         playlists |-> {PlaylistItem(title, channelTitle, None, ids) :
                            title \in PlaylistTitles,
                            channelTitle \in {None, <<"Q">> \o TopicSuffix},
                            ids \in KeyMembers}
                       \cup
                       {PlaylistItem(title, channelTitle, None, ids) :
                            title \in KeyTitles,
                            channelTitle \in {None, <<"Q">> \o TopicSuffix},
                            ids \in SeqsUpTo(VideoIds, max_tracks)},
         channels  |-> {Item(<<"U">>, Snippet(title, None, description, tags), topics) :
                            title \in ChannelTitles,
                            description \in {None, <<"d">>, LongText},
                            tags \in {<<>>, << <<"Q">>, <<"p", "o", "p">> >>, << <<"m", "u", "s", "i", "c">> >>},
                            topics \in {<<>>, <<WikiRockMusic>>}}]

\* the answers a detail request can get: an HttpError, no item, or an item
DetailAnswers(items) == Failures \cup {Ok(<<>>)} \cup {Ok(<<item>>) : item \in items}

(***************************************************************************)
(* process_urls: one round of its loop for one URL.  An outcome is the      *)
(* metadata stored under the URL together with the catalog requests that    *)
(* were issued for it and their answers.                                    *)
(***************************************************************************)

Outcome(url, video_id, strategy, metadata, detail, members, memberDetail) ==
    [url |-> url, video_id |-> video_id, strategy |-> strategy, metadata |-> metadata,
     detail |-> detail, members |-> members, memberDetail |-> memberDetail]

\* the fetch of one round: "invalid" when "not video_id", else the strategy
KindOf(url, video_id) == IF ~Truthy(video_id) THEN "invalid" ELSE StrategyOf(url)

InvalidOutcomes(url, video_id) ==
    {Outcome(url, video_id, "invalid", [error |-> <<"Invalid YouTube URL">>],
             NotIssued, NotIssued, NotIssued)}

HasItems(answer) == answer.status = "ok" /\ answer.items # <<>>

\* the answers to playlistItems().list, whose items are the members' video
\* ids: it is issued only after a detail answer with an item
\* (maxResults=max_tracks: at most the first max_tracks members are listed)
MembersAfter(detail) ==
    IF HasItems(detail)
        THEN Failures \cup {Ok(Take(detail.items[1].memberIds, max_tracks))}
        ELSE {NotIssued}

\* the answers to the members' videos().list: it is issued only when the
\* list holds a member
MemberDetailAfter(members) ==
    IF HasItems(members) THEN MemberDetailAnswers(members.items) ELSE {NotIssued}

\* the requests get_playlist_metadata issues, with their answers
PlaylistCalls(cat) ==
    UNION {UNION {{<<d, m, v>> : v \in MemberDetailAfter(m)} : m \in MembersAfter(d)} :
           d \in DetailAnswers(cat.playlists)}

PlaylistOutcomesOf(url, video_id, detail, members, memberDetail) ==
    {Outcome(url, video_id, "playlist", metadata, detail, members, memberDetail) :
        metadata \in get_playlist_metadata(video_id, detail, members, memberDetail)}

PlaylistOutcomes(url, video_id, cat) ==
    UNION {PlaylistOutcomesOf(url, video_id, c[1], c[2], c[3]) : c \in PlaylistCalls(cat)}

ChannelOutcomes(url, video_id, cat) ==
    UNION {{Outcome(url, video_id, "channel", metadata, d, NotIssued, NotIssued) :
              metadata \in get_artist_metadata(video_id, d)} :
           d \in DetailAnswers(cat.channels)}

VideoOutcomes(url, video_id, cat) ==
    UNION {{Outcome(url, video_id, "video", metadata, d, NotIssued, NotIssued) :
              metadata \in get_video_metadata(video_id, d)} :
           d \in DetailAnswers(cat.videos)}

\* the body of the for loop of process_urls, from video_id on
OutcomesFor(kind, url, video_id, cat) ==
    IF kind = "invalid" THEN InvalidOutcomes(url, video_id)
    ELSE IF kind = "playlist" THEN PlaylistOutcomes(url, video_id, cat)
    ELSE IF kind = "channel" THEN ChannelOutcomes(url, video_id, cat)
    ELSE VideoOutcomes(url, video_id, cat)

UrlOutcomes(url, cat) ==
    OutcomesFor(KindOf(url, extract_video_id(url)), url, extract_video_id(url), cat)

(***************************************************************************)
(* A Python dict (and the JSON object written from it) is a sequence of     *)
(* [key, value] entries with distinct keys, in insertion order.             *)
(***************************************************************************)

DictKeys(d) == {d[i].key : i \in 1..Len(d)}

DictGet(d, key) == (CHOOSE i \in 1..Len(d) : d[i].key = key)

\* a variant of DictSet that keeps one entry per assignment (a list of pairs)
DictSetAppending(d, key, value) == Append(d, [key |-> key, value |-> value])

\* d[key] = value: a new key is appended, a present key keeps its place
DictSet(d, key, value) ==
    IF key \in DictKeys(d)
        THEN [i \in 1..Len(d) |-> IF d[i].key = key THEN [key |-> key, value |-> value] ELSE d[i]]
        ELSE Append(d, [key |-> key, value |-> value])

\* d[key]
DictValue(d, key) == d[DictGet(d, key)].value

\* [line.strip() for line in f if line.strip()]
ReadUrls(file) ==
    LET NonBlank(line) == Strip(line) # <<>>
        kept == SelectSeq(file, NonBlank)
    IN  [i \in 1..Len(kept) |-> Strip(kept[i])]

(***************************************************************************)
(* The batch run: process_urls(input_file, output_file)                     *)
(***************************************************************************)

VARIABLES
    file,      \* the lines of input_file
    catalog,   \* the name of the catalog the run talks to
    urls,      \* process_urls' list urls
    pos,       \* the index in urls of the next URL of the for loop
    results,   \* process_urls' dict results
    calls,     \* history: the outcome of each round of the loop so far
    output,    \* the JSON object in output_file
    pc,        \* "read", "loop", "done", or "off" when no batch runs
    store,     \* the rows of table music_content, in insertion order
    said,      \* what the last store operation did and printed
    call,      \* the arguments of a direct call of clean_tags
    ret        \* the list that call returned

vars == <<file, catalog, urls, pos, results, calls, output, pc, store, said, call, ret>>

batchVars == <<file, catalog, urls, pos, results, calls, output, pc>>

storeVars == <<store, said>>

callVars == <<call, ret>>

\* the largest number of lines of an input file
MaxBatch == 2

ShortLink == Https \o YoutuBe \o <<"/", "a", "b">>

ShortLinkQuery == ShortLink \o <<"?", "t", "=", "1">>

WatchUrl == Https \o <<"w", "w", "w", ".">> \o YoutubeCom \o <<"/">> \o Watch \o <<"?", "v", "=", "a", "b">>

PlaylistUrl == Https \o MusicYoutubeCom \o <<"/">> \o PlaylistWord \o <<"?", "l", "i", "s", "t", "=", "P", "L">>

ChannelUrl == Https \o YoutubeCom \o <<"/">> \o ChannelWord \o <<"/", "U", "C">>

OtherUrl == Https \o <<"x", ".", "i", "o", "/", "a", "b">>

\* the lines of the input files of the batch runs: URLs, a blank line, and a
\* URL line with its line end
BatchLines ==
    {ShortLink, ShortLinkQuery, WatchUrl, PlaylistUrl, ChannelUrl, OtherUrl,
     <<" ">>, <<" ">> \o WatchUrl \o <<"\n">>}

NoBatch ==
    /\ file = <<>> /\ catalog = "none" /\ urls = <<>> /\ pos = 0
    /\ results = <<>> /\ calls = <<>> /\ output = <<>> /\ pc = "off"

NoStore == store = <<>> /\ said = <<>>

NoCall == call = <<>> /\ ret = <<>>

BatchStart(files, cat) ==
    /\ file \in files /\ catalog = cat
    /\ urls = <<>> /\ pos = 1 /\ results = <<>> /\ calls = <<>> /\ output = <<>>
    /\ pc = "read"

Init == BatchStart(SeqsUpTo(BatchLines, MaxBatch), "small") /\ NoStore /\ NoCall

\* with open(input_file) ...: urls = [...]
ReadInput ==
    /\ pc = "read"
    /\ urls' = ReadUrls(file)
    /\ pc' = "loop"
    /\ UNCHANGED <<file, catalog, pos, results, calls, output, storeVars, callVars>>

\* a variant of Round in which an error entry ends the loop
RoundStopping(outcomes) ==
    \E o \in outcomes :
        /\ results' = DictSet(results, urls[pos], o.metadata)
        /\ calls' = Append(calls, o)
        /\ pos' = IF IsError(o.metadata) THEN Len(urls) + 1 ELSE pos + 1
        /\ UNCHANGED <<file, catalog, urls, output, pc, storeVars, callVars>>

\* one round of the loop, storing results[url] = metadata
Round(outcomes) ==
    \E o \in outcomes :
        /\ results' = DictSet(results, urls[pos], o.metadata)
        /\ calls' = Append(calls, o)
        /\ pos' = pos + 1
        /\ UNCHANGED <<file, catalog, urls, output, pc, storeVars, callVars>>

\* the round at urls[pos] is of the given kind
RoundKind(kind, url, video_id) ==
    pc = "loop" /\ pos <= Len(urls) /\ KindOf(url, video_id) = kind

InvalidUrl ==
    /\ RoundKind("invalid", urls[pos], extract_video_id(urls[pos]))
    /\ Round(InvalidOutcomes(urls[pos], extract_video_id(urls[pos])))

PlaylistRound(url, video_id, cat) ==
    \E detail \in DetailAnswers(cat.playlists) :
        \E members \in MembersAfter(detail) :
            \E memberDetail \in MemberDetailAfter(members) :
                Round(PlaylistOutcomesOf(url, video_id, detail, members, memberDetail))

FetchPlaylist ==
    /\ RoundKind("playlist", urls[pos], extract_video_id(urls[pos]))
    /\ PlaylistRound(urls[pos], extract_video_id(urls[pos]), CatalogOf(catalog))

FetchChannel ==
    /\ RoundKind("channel", urls[pos], extract_video_id(urls[pos]))
    /\ Round(ChannelOutcomes(urls[pos], extract_video_id(urls[pos]), CatalogOf(catalog)))

FetchVideo ==
    /\ RoundKind("video", urls[pos], extract_video_id(urls[pos]))
    /\ Round(VideoOutcomes(urls[pos], extract_video_id(urls[pos]), CatalogOf(catalog)))

\* json.dump(results, f)
WriteOutput ==
    /\ pc = "loop" /\ pos > Len(urls)
    /\ output' = results
    /\ pc' = "done"
    /\ UNCHANGED <<file, catalog, urls, pos, results, calls, storeVars, callVars>>

Next ==
    \/ ReadInput
    \/ InvalidUrl
    \/ FetchPlaylist
    \/ FetchChannel
    \/ FetchVideo
    \/ WriteOutput

Spec == Init /\ [][Next]_vars

(***************************************************************************)
(* One-URL runs over many URLs (the identifier extractor and the choice of  *)
(* the strategy)                                                            *)
(***************************************************************************)

UrlHosts ==
    {Https \o YoutuBe,
     Https \o <<"w", "w", "w", ".">> \o YoutubeCom,
     Https \o MusicYoutubeCom,
     YoutubeCom,
     Https \o <<"x", ".", "i", "o">>}

UrlPaths ==
    {<<"/", "a", "b">>,
     <<"/">>,
     <<"/", "x">> \o ChannelWord,
     <<"/">> \o Watch,
     <<"/">> \o PlaylistWord,
     <<"/">> \o ChannelWord \o <<"/", "U", "C">>}

UrlQueries ==
    {<<>>,
     <<"?", "t", "=", "1">>,
     <<"?", "v", "=", "a", "b">>,
     <<"?", "l", "i", "s", "t", "=", "P", "L">>,
     <<"?", "t", "=", "1", "&", "v", "=", "a", "b", "&", "l", "i", "s", "t", "=", "P", "L">>,
     <<"?", "f", "=">> \o PlaylistWord,
     <<"?", "u", "=", "x", "/", "y">>,
     <<"?", "v", "=">>}

UrlSet == {h \o p \o q : h \in UrlHosts, p \in UrlPaths, q \in UrlQueries}

InitUrl == BatchStart({<<u>> : u \in UrlSet}, "small") /\ NoStore /\ NoCall

SpecUrl == InitUrl /\ [][Next]_vars

(***************************************************************************)
(* One-URL runs against the rich catalog (classifier, name resolver, tags)  *)
(***************************************************************************)

InitClassify ==
    /\ BatchStart({<<u>> : u \in {WatchUrl, PlaylistUrl, ChannelUrl, OtherUrl}}, "rich")
    /\ NoStore /\ NoCall

SpecClassify == InitClassify /\ [][Next]_vars

(***************************************************************************)
(* Claims about the batch run                                               *)
(***************************************************************************)

\* the keys of a dict, in order
KeyList(d) == [i \in 1..Len(d) |-> d[i].key]

\* a list without its repeated entries, the first occurrences kept in order
RECURSIVE FirstOccurrences(_)
FirstOccurrences(seq) ==
    IF seq = <<>> THEN <<>>
    ELSE LET front == FirstOccurrences(Take(seq, Len(seq) - 1))
         IN  IF Last(seq) \in Range(front) THEN front ELSE Append(front, Last(seq))

\* line i is the last line that holds its URL
LastLineOf(i) == \A j \in (i + 1)..Len(urls) : urls[j] # urls[i]

InvalidEntry == [error |-> <<"Invalid YouTube URL">>]

\* a URL of neither the short-link nor the canonical domain
ForeignUrl(url) == ~Contains(url, YoutuBe) /\ ~Contains(url, YoutubeCom)

DetailFailed(round) ==
    round.detail.status = "HttpError" \/ (round.detail.status = "ok" /\ round.detail.items = <<>>)

Rounds(strategy) == {i \in 1..Len(calls) : calls[i].strategy = strategy}

\* the rounds of a strategy that produced a record
Records(strategy) == {i \in Rounds(strategy) : ~IsError(calls[i].metadata)}

AllRecords == {i \in 1..Len(calls) : ~IsError(calls[i].metadata)}

\* the snippet the detail request of a round returned
SnippetOf(round) == round.detail.items[1].snippet

\* the member samples of a playlist round
SamplesOf(round) == get_playlist_tracks_metadata(round.members, round.memberDetail)

Answers(round) == {round.detail, round.members, round.memberDetail}

MultiArtistRound(round) == Cardinality(TrackArtists(SamplesOf(round))) > 1

QTopic == <<"Q">> \o TopicSuffix

AlbumWithoutTitleArtist(round) ==
    /\ round.metadata.type = "Album"
    /\ ~Truthy(ParseTitle(SnippetOf(round).title)[3])

\* every sampled member has the same non-empty artist name
AllMembersShare(samples) ==
    /\ samples # <<>>
    /\ \A k \in 1..Len(samples) :
          Truthy(samples[k].artist_name) /\ samples[k].artist_name = samples[1].artist_name

\* C5 (as claimed): an Album without artist_name from the title takes the
\* artist name all sampled members share, and has no artist_name otherwise.
C5_SharedArtistOrAbsent ==
    \A i \in Records("playlist") :
        AlbumWithoutTitleArtist(calls[i]) =>
            calls[i].metadata.artist_name =
                IF AllMembersShare(SamplesOf(calls[i]))
                    THEN SamplesOf(calls[i])[1].artist_name
                    ELSE None

\* the artist names of the samples that have one
NamedArtists(round) == TrackArtists(SamplesOf(round))

\* C5 (amended): an Album without artist_name from the title takes the one
\* artist name found among the sampled members (members without an artist
\* name are passed over), with " - Topic" removed from it once more; with no
\* such name it takes the playlist's channel title without " - Topic", and has
\* no artist_name only when the catalog gives no channel title either.
C5_SharedArtistOrOwner ==
    \A i \in Records("playlist") :
        AlbumWithoutTitleArtist(calls[i]) =>
            /\ NamedArtists(calls[i]) = {<<"Q">>} => calls[i].metadata.artist_name = <<"Q">>
            /\ NamedArtists(calls[i]) = {<<"R">>} => calls[i].metadata.artist_name = <<"R">>
            /\ NamedArtists(calls[i]) = {QTopic} => calls[i].metadata.artist_name = <<"Q">>
            /\ (NamedArtists(calls[i]) = {} /\ SnippetOf(calls[i]).channelTitle = QTopic) =>
                  calls[i].metadata.artist_name = <<"Q">>
            /\ (NamedArtists(calls[i]) = {} /\ SnippetOf(calls[i]).channelTitle = None) =>
                  calls[i].metadata.artist_name = None
            /\ Cardinality(NamedArtists(calls[i])) <= 1

\* "Album - G" whose three sampled members share the artist name
C5_Witness ==
    \E i \in Records("playlist") :
        /\ SnippetOf(calls[i]).title = AlbumPrefix \o <<"G">>
        /\ Len(SamplesOf(calls[i])) = max_tracks
        /\ AllMembersShare(SamplesOf(calls[i]))
        /\ calls[i].metadata.type = "Album"
        /\ calls[i].metadata.name = <<"G">>
        /\ calls[i].metadata.artist_name = <<"Q">>

\* C6: every record of the three strategies has a non-empty name.
C6_NameNonEmpty ==
    \A i \in AllRecords : calls[i].metadata.name # <<>>

\* a tag equal to a string but for the case of its letters
SameButCase(tag, s) == Truthy(s) /\ Lower(tag) = Lower(s)

\* C7: in a playlist or channel record no tag equals, but for case, the final
\* name or "music", nor, for a playlist, the final artist_name or the title of
\* a sampled member.
C7_TagsExcludeNames ==
    /\ \A i \in Records("playlist") \cup Records("channel") :
          \A tag \in Range(calls[i].metadata.tags) :
              /\ ~SameButCase(tag, calls[i].metadata.name)
              /\ ~SameButCase(tag, MusicWord)
    /\ \A i \in Records("playlist") :
          \A tag \in Range(calls[i].metadata.tags) :
              /\ ~SameButCase(tag, calls[i].metadata.artist_name)
              /\ \A k \in 1..Len(SamplesOf(calls[i])) :
                    ~SameButCase(tag, SamplesOf(calls[i])[k].title)

(***************************************************************************)
(* Claims about the identifier extractor                                    *)
(***************************************************************************)

\* the identifiers of the short links of UrlSet: the paths of one segment
ShortLinkIds == {<<"a", "b">>, <<"x">> \o ChannelWord, Watch, PlaylistWord}

\* C9: a short link .../<id>, with or without a query suffix, has the
\* identifier id and is fetched as a video.
C9_ShortLinkIsVideo ==
    \A i \in 1..Len(calls) : \A id \in ShortLinkIds : \A query \in UrlQueries :
        calls[i].url = Https \o YoutuBe \o <<"/">> \o id \o query =>
            calls[i].video_id = id /\ calls[i].strategy = "video"

(***************************************************************************)
(* Direct calls of clean_tags                                               *)
(***************************************************************************)

\* the largest number of tags handed to one call
MaxTags == 3

Rock == <<"R", "o", "c", "k">>

TagPool == {Rock, Lower(Rock), <<"R", "O", "C", "K">>, <<"M", "u", "s", "i", "c">>, <<"G">>, <<" ">>}

\* the arguments of the calls: lists of tags, with and without a title, an
\* artist name and a sampled track
TagCalls ==
    [tags        : SeqsUpTo(TagPool, MaxTags),
     title       : {None, <<"g">>},
     artist_name : {None, <<"G">>},
     tracks      : {<<>>, <<TrackOf(TrackA)>>},
     is_playlist : BOOLEAN]

InitTags == NoBatch /\ NoStore /\ call \in TagCalls /\ ret = <<>>

\* ret = clean_tags(tags, title, artist_name, tracks, is_playlist)
CleanTagsCall ==
    /\ pc = "off" /\ call # <<>> /\ ret = <<>>
    /\ \E cleaned \in clean_tags(call.tags, call.title, call.artist_name, call.tracks,
                                 call.is_playlist) :
          ret' = <<cleaned>>
    /\ UNCHANGED <<batchVars, storeVars, call>>

NextTags == CleanTagsCall

SpecTags == InitTags /\ [][NextTags]_vars

RockVariants == {tag \in TagPool : Lower(tag) = Lower(Rock)}

clean_type(content_type) ==
    IF content_type = "Album" THEN "ALBUM"
    ELSE IF content_type = "Playlist" THEN "PLAYLIST"
    ELSE IF content_type = "Video" THEN "SONG"
    ELSE IF content_type = "Artist" THEN "ARTIST"
    ELSE "SONG"

TwoApostrophes == <<"'", "'">>

\* value.replace("'", "''")
EscapeQuotes(value) == Replace(value, Apostrophe, TwoApostrophes)

\* metadata.get("artist_name", "").replace("'", "''") if metadata.get("artist_name") else None
ArtistLiteral(metadata) ==
    IF "artist_name" \in DOMAIN metadata /\ Truthy(metadata.artist_name)
        THEN EscapeQuotes(metadata.artist_name)
        ELSE None

\* the statement built for one record
InsertStatement(metadata) ==
    [verb        |-> "INSERT",
     type        |-> clean_type(metadata.type),
     youtube_id  |-> metadata.youtube_id,
     name        |-> EscapeQuotes(metadata.name),
     artist_name |-> ArtistLiteral(metadata),
     description |-> None,
     raw_tags    |-> None]

\* the fields generate_insert_statements reads with metadata[...]
RequiredFields == {"type", "youtube_id", "name"}

NotError(entry) == ~IsError(entry.value)

StatementsOf(kept) == [i \in 1..Len(kept) |-> InsertStatement(kept[i].value)]

\* the records of data that are no error entries
Ingested(data) == SelectSeq(data, NotError)

\* generate_insert_statements(data) as main runs it: the statements it
\* prints, or the KeyError of a record without a required field, on which
\* main prints nothing to stdout and exits with status 1
generate_insert_statements(data) ==
    IF \E i \in 1..Len(Ingested(data)) : ~(RequiredFields \subseteq DOMAIN Ingested(data)[i].value)
        THEN [raised |-> "KeyError", statements |-> <<>>]
        ELSE [raised |-> "", statements |-> StatementsOf(Ingested(data))]

(***************************************************************************)
(* The store: table music_content.  Its schema file is not part of the      *)
(* sources; the uniqueness of (type, youtube_id) is taken from the spec.    *)
(***************************************************************************)

\* the value of a SQL string literal: '' stands for one apostrophe
LiteralValue(literal) ==
    IF literal = None THEN None ELSE Replace(literal, TwoApostrophes, Apostrophe)

\* the row a statement inserts
RowOf(statement) ==
    [type        |-> statement.type,
     youtube_id  |-> LiteralValue(statement.youtube_id),
     name        |-> LiteralValue(statement.name),
     artist_name |-> LiteralValue(statement.artist_name),
     description |-> LiteralValue(statement.description),
     raw_tags    |-> LiteralValue(statement.raw_tags)]

\* a literal written without escaping ends at its first single apostrophe
Malformed(statement) ==
    Contains(Replace(statement.youtube_id, TwoApostrophes, <<>>), Apostrophe)

\* UNIQUE (type, youtube_id)
Clashes(rows, row) ==
    \E i \in 1..Len(rows) : rows[i].type = row.type /\ rows[i].youtube_id = row.youtube_id

UniqueFailed == <<"UNIQUE constraint failed: music_content.type, music_content.youtube_id">>

SyntaxError == <<"syntax error">>

\* one statement on the rows: the rows after it and the error it raises
\* (<<>> when none).  INSERT OR IGNORE skips a clashing row, INSERT raises.
Execute(rows, statement) ==
    IF Malformed(statement) THEN [rows |-> rows, error |-> SyntaxError]
    ELSE IF ~Clashes(rows, RowOf(statement))
        THEN [rows |-> Append(rows, RowOf(statement)), error |-> <<>>]
    ELSE IF statement.verb = "INSERT OR IGNORE" THEN [rows |-> rows, error |-> <<>>]
    ELSE [rows |-> rows, error |-> UniqueFailed]

\* cursor.executescript(sql): the statements in order, up to the first error
RECURSIVE executescript(_, _)
ExecuteRest(done, statements) ==
    IF done.error # <<>> THEN done ELSE executescript(done.rows, statements)

executescript(rows, statements) ==
    IF statements = <<>> THEN [rows |-> rows, error |-> <<>>]
    ELSE ExecuteRest(Execute(rows, statements[1]), Drop(statements, 1))

(***************************************************************************)
(* add_url (fiddle_with_tagged_music.py) and insert_sample_data             *)
(* (build_music_corpus_prototype.py) on one database file                   *)
(***************************************************************************)

\* what a store operation leaves in said: the rows it handed to the store and
\* the line it printed
Say(op, rows, printed) == said' = [op |-> op, rows |-> rows, printed |-> printed]

\* the dict process_urls writes for the file that holds the one line url + "\n"
FetchedFrom(lines, cat) ==
    IF lines = <<>> THEN {<<>>}
    ELSE {DictSet(<<>>, lines[1], o.metadata) : o \in UrlOutcomes(lines[1], cat)}

Fetched(url, cat) == FetchedFrom(ReadUrls(<<url \o <<"\n">> >>), cat)

\* [tag.strip() for tag in tags.split(',')]
StrippedTags(parts) == [i \in 1..Len(parts) |-> Strip(parts[i])]

\* metadata['tags'] = metadata.get('tags', []) + [...] when tags are given
WithTags(metadata, tags) ==
    IF Truthy(tags)
        THEN [metadata EXCEPT !.tags = @ \o StrippedTags(Split(tags, <<",">>))]
        ELSE metadata

\* cursor.executescript(sql), conn.commit() and the line printed after them,
\* or the line printed for the exception executescript raised
Commit(metadata, statements, result) ==
    /\ store' = result.rows
    /\ Say("add_url", [i \in 1..Len(statements) |-> RowOf(statements[i])],
           IF result.error = <<>>
               THEN <<"Added ", metadata.name, " to database">>
               ELSE <<"Error: ", result.error>>)

\* from the run of ingest_json_to_table.py on
Ingest(metadata, generated) ==
    IF generated.raised # ""
        THEN /\ store' = store
             /\ Say("add_url", <<>>, <<"Error running pipeline: ", generated.raised>>)
        ELSE Commit(metadata, generated.statements, executescript(store, generated.statements))

\* add_url from the fetched dict on
AddFetched(url, tags, data) ==
    IF url \notin DictKeys(data)
        THEN /\ store' = store
             /\ Say("add_url", <<>>, <<"Error: Could not fetch metadata for ", url>>)
    ELSE IF IsError(DictValue(data, url))
        THEN /\ store' = store
             /\ Say("add_url", <<>>, <<"Error: ", DictValue(data, url).error>>)
    ELSE Ingest(WithTags(DictValue(data, url), tags),
                generate_insert_statements(
                    <<[key |-> url, value |-> WithTags(DictValue(data, url), tags)]>>))

SampleUrl == Https \o YoutuBe \o <<"/", "d", "Q", "w", "4", "w", "9", "W", "g", "X", "c", "Q">>

\* the URLs handed to add_url, one of them with a space before it
StoreUrls ==
    {ShortLink, WatchUrl, PlaylistUrl, ChannelUrl, OtherUrl, SampleUrl, <<" ">> \o WatchUrl}

TagArgs == {None, <<"x", ",", " ", "y">>}

AddUrl ==
    /\ pc = "off" /\ call = <<>>
    /\ \E url \in StoreUrls : \E tags \in TagArgs : \E data \in Fetched(url, CatalogOf("small")) :
          AddFetched(url, tags, data)
    /\ UNCHANGED <<batchVars, callVars>>

Sample(youtube_id, name, artist_name, description, raw_tags) ==
    [verb |-> "INSERT OR IGNORE", type |-> "SONG", youtube_id |-> youtube_id, name |-> name,
     artist_name |-> artist_name, description |-> description, raw_tags |-> raw_tags]

\* sample_songs, as the statements executed for them
sample_songs ==
    <<Sample(<<"d", "Q", "w", "4", "w", "9", "W", "g", "X", "c", "Q">>,
             <<"N", "e", "v", "e", "r", " ", "G", "o", "n", "n", "a", " ", "G", "i", "v", "e",
               " ", "Y", "o", "u", " ", "U", "p">>,
             <<"R", "i", "c", "k", " ", "A", "s", "t", "l", "e", "y">>,
             <<"O", "f", "f", "i", "c", "i", "a", "l", " ", "m", "u", "s", "i", "c", " ", "v",
               "i", "d", "e", "o", ".">>,
             <<"p", "o", "p", ",", " ", "8", "0", "s", ",", " ", "c", "l", "a", "s", "s", "i",
               "c">>),
      Sample(<<"y", "6", "1", "2", "0", "Q", "O", "l", "s", "f", "U">>,
             <<"F", "u", "r", " ", "E", "l", "i", "s", "e">>,
             <<"L", "u", "d", "w", "i", "g", " ", "v", "a", "n", " ", "B", "e", "e", "t", "h",
               "o", "v", "e", "n">>,
             <<"C", "l", "a", "s", "s", "i", "c", "a", "l", " ", "p", "i", "a", "n", "o", " ",
               "p", "i", "e", "c", "e", ".">>,
             <<"c", "l", "a", "s", "s", "i", "c", "a", "l", ",", " ", "p", "i", "a", "n", "o",
               ",", " ", "i", "n", "s", "t", "r", "u", "m", "e", "n", "t", "a", "l">>),
      Sample(<<"3", "J", "Z", "_", "D", "3", "E", "L", "w", "O", "Q">>,
             <<"B", "o", "h", "e", "m", "i", "a", "n", " ", "R", "h", "a", "p", "s", "o", "d",
               "y">>,
             <<"Q", "u", "e", "e", "n">>,
             <<"I", "c", "o", "n", "i", "c", " ", "r", "o", "c", "k", " ", "o", "p", "e", "r",
               "a", " ", "s", "o", "n", "g", ".">>,
             <<"r", "o", "c", "k", ",", " ", "7", "0", "s", ",", " ", "o", "p", "e", "r", "a">>)>>

\* the statements are executed with bound parameters: the values are stored
\* as they are
SampleRows == [i \in 1..Len(sample_songs) |-> [k \in DOMAIN RowOf(sample_songs[i]) |-> sample_songs[i][k]]]

\* the loop of insert_sample_data over the songs from the i-th on:
\* <<rows, inserted_count>>
RECURSIVE InsertSamples(_, _, _)
InsertSamples(rows, i, inserted_count) ==
    IF i > Len(sample_songs) THEN <<rows, inserted_count>>
    ELSE IF Clashes(rows, SampleRows[i])
        THEN InsertSamples(rows, i + 1, inserted_count)
        ELSE InsertSamples(Append(rows, SampleRows[i]), i + 1, inserted_count + 1)

SamplesDone(result) ==
    /\ store' = result[1]
    /\ Say("insert_sample_data", SampleRows,
           IF result[2] > 0
               THEN <<"Successfully inserted ", result[2], " new sample songs into the database.">>
               ELSE <<"Sample songs already exist in the database or no new songs were inserted.">>)

InsertSampleData ==
    /\ pc = "off" /\ call = <<>>
    /\ SamplesDone(InsertSamples(store, 1, 0))
    /\ UNCHANGED <<batchVars, callVars>>

InitStore == NoBatch /\ NoStore /\ NoCall

NextStore ==
    \/ AddUrl
    \/ InsertSampleData

SpecStore == InitStore /\ [][NextStore]_vars

\* no two rows of the store have the same (type, youtube_id)
OneRowPerKey ==
    \A i, j \in 1..Len(store) :
        (store[i].type = store[j].type /\ store[i].youtube_id = store[j].youtube_id) => i = j

\* the line an operation printed reports an error
PrintedError(printed) == printed[1] \in {"Error: ", "Error running pipeline: "}

\* C10: the store holds at most one row per (type, youtube_id), and an
\* operation that hands it a row whose (type, youtube_id) is stored is
\* silently skipped: no error is reported and the rows stay as they are.
C10_DuplicateSilentlySkipped ==
    /\ []OneRowPerKey
    /\ [][\A k \in 1..Len(said'.rows) :
              Clashes(store, said'.rows[k]) =>
                  /\ ~PrintedError(said'.printed)
                  /\ \A i \in 1..Len(store) : store'[i] = store[i]
                  /\ \A i \in (Len(store) + 1)..Len(store') :
                        ~(store'[i].type = said'.rows[k].type
                            /\ store'[i].youtube_id = said'.rows[k].youtube_id)]_vars

(***************************************************************************)
(* Runs of ingest_json_to_table.py on a file of records                     *)
(***************************************************************************)

\* main from the result of generate_insert_statements on: the statements
\* printed to stdout and the exit status (1 after "Error: ..." on stderr)
MainPrints(generated) ==
    IF generated.raised # ""
        THEN [status |-> 1, stdout |-> <<>>]
        ELSE [status |-> 0, stdout |-> generated.statements]

\* main, from the dict json.load returned on
ingest_main(data) == MainPrints(generate_insert_statements(data))

\* the largest number of records of an input file
MaxRecords == 3

AlbumRecord ==
    [type |-> "Album", name |-> <<"G">>, artist_name |-> <<"Q">>, youtube_id |-> <<"P", "L">>,
     description |-> None, tags |-> <<>>]

VideoRecord ==
    [type |-> "Video", name |-> <<"G", "'", "s">>, artist_name |-> None,
     youtube_id |-> <<"a", "b">>, description |-> <<"d">>, tags |-> << <<"R", "o", "c", "k">> >>]

\* a record without one of its fields
Without(record, field) == [k \in DOMAIN record \ {field} |-> record[k]]

\* the values of the input files: records, an error entry, and records that
\* lack a field
RecordPool ==
    {AlbumRecord, VideoRecord, [error |-> <<"Video not found">>],
     Without(AlbumRecord, "artist_name")}
    \cup {Without(VideoRecord, field) : field \in RequiredFields}

\* the keys of the input files, in the order of the file
RecordUrls == <<ShortLink, PlaylistUrl, WatchUrl, ChannelUrl, OtherUrl, ShortLinkQuery>>

IngestFiles ==
    {[i \in 1..Len(values) |-> [key |-> RecordUrls[i], value |-> values[i]]] :
        values \in SeqsUpTo(RecordPool, MaxRecords)}

InitIngest == NoBatch /\ NoStore /\ call \in IngestFiles /\ ret = <<>>

\* python3 ingest_json_to_table.py <file holding call>
IngestMain ==
    /\ pc = "off" /\ ret = <<>>
    /\ ret' = <<ingest_main(call)>>
    /\ UNCHANGED <<batchVars, storeVars, call>>

NextIngest == IngestMain

SpecIngest == InitIngest /\ [][NextIngest]_vars

\* a record that is no error entry and has the required fields
WellFormed(metadata) == ~IsError(metadata) /\ RequiredFields \subseteq DOMAIN metadata

\* C11: a record that lacks a required field is the only one skipped: the run
\* emits an insert statement for every well-formed, non-error record.
C11_MalformedSkippedAlone ==
    ret # <<>> =>
        \A i \in 1..Len(call) :
            WellFormed(call[i].value) =>
                \E k \in 1..Len(ret[1].stdout) :
                    /\ ret[1].stdout[k].verb = "INSERT"
                    /\ ret[1].stdout[k].youtube_id = call[i].value.youtube_id

(***************************************************************************)
(* Claims about the normalisation of the fields of a record                 *)
(***************************************************************************)

\* C12: deriving the fields of an assembled record once more changes
\* nothing: clean_artist_name leaves its artist_name (and the name of an
\* Artist record, which it produced) as it is, and clean_type leaves the type
\* it produced as it is.
C12_NormalizationIdempotent ==
    \A i \in AllRecords :
        /\ "artist_name" \in DOMAIN calls[i].metadata =>
              clean_artist_name(calls[i].metadata.artist_name) = calls[i].metadata.artist_name
        /\ calls[i].metadata.type = "Artist" =>
              clean_artist_name(calls[i].metadata.name) = calls[i].metadata.name
        /\ clean_type(clean_type(calls[i].metadata.type)) = clean_type(calls[i].metadata.type)

(***************************************************************************)
(* Claims about the order of the rules of parse_album_info                  *)
(***************************************************************************)

\* the separator occurs in the title right after its first n characters, and
\* not before
FirstAt(title, sep, n) ==
    /\ n + Len(sep) <= Len(title)
    /\ \A k \in 1..Len(sep) : title[n + k] = sep[k]
    /\ \A m \in 0..(n - 1) : \E k \in 1..Len(sep) : title[m + k] # sep[k]

\* the separator occurs in the title
Occurs(title, sep) == \E n \in 0..Len(title) : FirstAt(title, sep, n)

\* the record is the Album of the title split at the first occurrence of the
\* separator: the left part trimmed is the artist_name (when it is not
\* empty), the right part without the characters of trim at its ends the name
SplitAlbum(metadata, title, sep, trim) ==
    \E n \in 0..Len(title) :
        /\ FirstAt(title, sep, n)
        /\ metadata.type = "Album"
        /\ metadata.name = StripChars(Drop(title, n + Len(sep)), trim)
        /\ Strip(Take(title, n)) # <<>> => metadata.artist_name = Strip(Take(title, n))

\* the record of a title under the rules in their order
RuleOrder(metadata, title) ==
    IF Occurs(Take(title, Len(AlbumPrefix)), AlbumPrefix)
        THEN metadata.type = "Album" /\ metadata.name = Drop(title, Len(AlbumPrefix))
    ELSE IF Occurs(title, DashSep) THEN SplitAlbum(metadata, title, DashSep, Whitespace)
    ELSE IF Occurs(title, ColonSep) THEN SplitAlbum(metadata, title, ColonSep, Whitespace)
    ELSE IF Occurs(title, Apostrophe)
        THEN SplitAlbum(metadata, title, Apostrophe, {"'", " "})
    ELSE metadata.type = "Playlist" /\ metadata.name = title

\* C13: without a multi-artist conflict in the samples the record of a
\* playlist follows the first matching rule in the order "Album - " prefix,
\* " - ", ": ", apostrophe, fallback; a split is at the first occurrence of
\* the separator into (artist_name, name), both trimmed (the name of the
\* apostrophe rule of apostrophes too), with type Album; a title matching no
\* pattern gives Playlist and the raw title.
C13_RuleOrder ==
    \A i \in Records("playlist") :
        ~MultiArtistRound(calls[i]) => RuleOrder(calls[i].metadata, SnippetOf(calls[i]).title)

\* a title with ": " before " - " is split by the dash rule
C13_Witness ==
    \E i \in Records("playlist") :
        /\ ~MultiArtistRound(calls[i])
        /\ SnippetOf(calls[i]).title = ColonSep \o DashSep \o <<"G">>
        /\ calls[i].metadata.type = "Album"
        /\ calls[i].metadata.name = <<"G">>
        /\ calls[i].metadata.artist_name = <<":">>

(***************************************************************************)
(* Claims about the URLs of the canonical domain                            *)
(***************************************************************************)

CanonicalHosts ==
    {Https \o <<"w", "w", "w", ".">> \o YoutubeCom, Https \o MusicYoutubeCom}

VParam == <<"v", "=", "a", "b">>

ListParam == <<"l", "i", "s", "t", "=", "P", "L">>

\* the round fetched with the strategy and, when the query holds the
\* parameter, with its value as the identifier
FetchedBy(round, strategy, query, param, value) ==
    /\ round.strategy = strategy
    /\ Occurs(query, param) => round.video_id = value

\* the segment is the part of the path after its last "/"
AfterLastSlash(path, segment) ==
    \E n \in 1..Len(path) :
        /\ path[n] = "/"
        /\ \A m \in (n + 1)..Len(path) : path[m] # "/"
        /\ segment = Drop(path, n)

\* C14: a fetched URL of the canonical domain is fetched with the strategy of
\* the path branch that gave its identifier: "watch" gives parameter v and
\* the video strategy, "playlist" parameter list and the playlist strategy,
\* "channel" the last path segment and the channel strategy, whatever else
\* the query holds.
C14_KindAgreesWithPath ==
    \A i \in 1..Len(calls) : \A host \in CanonicalHosts : \A path \in UrlPaths :
        \A query \in UrlQueries :
            (calls[i].url = host \o path \o query /\ calls[i].strategy # "invalid") =>
                IF Occurs(path, Watch)
                    THEN FetchedBy(calls[i], "video", query, VParam, <<"a", "b">>)
                ELSE IF Occurs(path, PlaylistWord)
                    THEN FetchedBy(calls[i], "playlist", query, ListParam, <<"P", "L">>)
                ELSE IF Occurs(path, ChannelWord)
                    THEN calls[i].strategy = "channel" /\ AfterLastSlash(path, calls[i].video_id)
                ELSE TRUE

(***************************************************************************)
(* Claims about the record of a video                                      *)
(***************************************************************************)

\* the name without the suffix " - Topic" at its end, if it ends with it
WithoutTrailingTopic(name) ==
    IF Len(name) >= Len(TopicSuffix) /\ Drop(name, Len(name) - Len(TopicSuffix)) = TopicSuffix
        THEN Take(name, Len(name) - Len(TopicSuffix))
        ELSE name

\* C15: the record of a video is ingested as a Song, its name is the title of
\* the video, and its artist_name is the channel title with only a trailing
\* " - Topic" removed and the surrounding whitespace trimmed: an occurrence of
\* " - Topic" that is not at the end of the channel title stays in place.
C15_VideoRecord ==
    \A i \in Records("video") :
        /\ clean_type(calls[i].metadata.type) = "SONG"
        /\ calls[i].metadata.name = SnippetOf(calls[i]).title
        /\ Truthy(SnippetOf(calls[i]).channelTitle) =>
              calls[i].metadata.artist_name =
                  Strip(WithoutTrailingTopic(SnippetOf(calls[i]).channelTitle))

=============================================================================
